---- MODULE Spec2Model ----
(***************************************************************************)
(* Training-step orchestration of rljax: the algorithm base classes        *)
(* (rljax/algorithm/base.py) and FQF (rljax/algorithm/fqf.py).             *)
(*                                                                         *)
(* Three kinds of object: an OnPolicyActorCritic and a QLearning of        *)
(* base.py, whose update is abstract, and an FQF, whose base class is      *)
(* rljax.algorithm.base_class.QLearning: that module is not part of the    *)
(* sources at hand, and its constructor, step and is_update are taken to   *)
(* behave as those of base.py on the counter agent_step.                   *)
(*                                                                         *)
(* One algorithm object is modelled together with the collaborators it     *)
(* drives: the environment (env.step / env.reset), its buffer (append,     *)
(* sample, update_priority) and the optimizer calls.  Network parameters   *)
(* are opaque values drawn from a small set; what the model keeps is which *)
(* value is threaded where.                                                *)
(***************************************************************************)
EXTENDS Integers, Sequences, FiniteSets, TLC

\* ------------------------------------------------------------------ bounds
MaxSteps == 4
MaxAgentSteps == 2
MaxUpdates == 2
MaxRunSteps == 6
MaxBufferSize == 3
MaxStartSteps == 2
MaxInterval == 2
MaxTargetInterval == 3
MaxEpisode == 2

\* tau = 1.0 of QLearning._update_target, in percent.
TauHard == 100

\* Network parameters and optimizer results are opaque: they are only copied and
\* compared, so two distinct values tell a fresh value from a stale one.
ParamVals == {0, 1}

VARIABLES
    cls,                    \* class of the algorithm object
    num_steps, buffer_size, start_steps, update_interval,
    update_interval_target, use_per,
    max_episode_steps,      \* env._max_episode_steps
    env_step, learning_step,
    t,                      \* episode counter returned by step and passed back in
    buffer,                 \* the buffer object and the calls it has received
    env,                    \* the environment: calls of env.step, last done, last reset
    actions,                \* how step chose its actions so far
    params, params_target, params_cum_p, opt_state, opt_state_cum_p,
    used,                   \* arguments the optimize calls of the last update() received
    hist,                   \* history of the calls made on the object
    pc                      \* position of the training loop ("any": calls in any order)

cfgvars == <<cls, num_steps, buffer_size, start_steps, update_interval,
             update_interval_target, use_per, max_episode_steps>>
netvars == <<params, params_target, params_cum_p, opt_state, opt_state_cum_p, used>>
vars == <<cfgvars, env_step, learning_step, t, buffer, env, actions, netvars, hist, pc>>

\* ------------------------------------------------------- collaborators
\* rljax.buffer: the buffer records the calls it receives.
new_buffer(kind, beta) ==
    [kind |-> kind, beta_steps |-> beta, appended |-> 0, mask |-> FALSE, sampled |-> 0,
     cached |-> 0, prioritized |-> 0, prio_at |-> 0, prio_from |-> 0]

\* buffer.append(state, action, reward, mask, ...)
append(buf, mask) == [buf EXCEPT !.appended = @ + 1, !.mask = mask]

\* buffer.sample(batch_size): the batch is identified by the ordinal of the call;
\* a prioritized buffer caches the indices of the batch it handed out.
sample(buf) == [buf EXCEPT !.sampled = @ + 1, !.cached = buf.sampled + 1]

\* buffer.update_priority(abs_td): writes the priorities at the cached indices;
\* abs_td is identified by the batch it was computed from.
update_priority(buf, abs_td) ==
    [buf EXCEPT !.prioritized = @ + 1, !.prio_at = buf.cached, !.prio_from = abs_td]

\* rljax.utils.soft_update(target, source, tau), tau in percent.
soft_update(target, source, tau) == (tau * source + (100 - tau) * target) \div 100

\* ------------------------------------------------------- Algorithm.__init__
\* OffPolicyAlgorithm.__init__: the buffer class chosen from use_per.
OffPolicyAlgorithm_buffer(per) ==
    IF per THEN "PrioritizedReplayBuffer" ELSE "ReplayBuffer"

\* beta_steps = (num_steps - start_steps) / update_interval, a true division:
\* kept as the fraction <<numerator, denominator>>.
beta_steps(n, s, u) == <<n - s, u>>

\* k <= p/q for a fraction <<p, q>> with q > 0
LeqFrac(k, f) == k * f[2] <= f[1]

\* ------------------------------------------------------- is_update
\* Variant: the test compares the remainder with 1.
OnPolicyActorCritic_is_update_mut(es, bs) == es % bs = 1 % bs
\* OnPolicyActorCritic.is_update
OnPolicyActorCritic_is_update(es, bs) == es % bs = 0

\* Variants: without the warm-up test; without the interval test.
OffPolicyAlgorithm_is_update_nowarm(es, ui, ss) == es % ui = 0
OffPolicyAlgorithm_is_update_every(es, ui, ss) == es >= ss
\* OffPolicyAlgorithm.is_update
OffPolicyAlgorithm_is_update(es, ui, ss) == es % ui = 0 /\ es >= ss

\* ------------------------------------------------------- step
\* What one call of step does, as a function of the object's env_step, the t passed
\* in, and the done flag env.step returns: the new env_step, where the action came
\* from, the number of env.step and buffer.append calls, the mask stored, whether
\* env.reset was called and the t returned.
\* Variant: the time limit is not looked at.
OnPolicyActorCritic_step_nolimit(es, tin, maxep, done) ==
    LET t1 == tin + 1 IN
    [env_step |-> es + 1, source |-> "explore", env_calls |-> 1,
     mask |-> done, appends |-> 1, reset |-> done, t |-> IF done THEN 0 ELSE t1]

OnPolicyActorCritic_step(es, tin, maxep, done) ==
    LET t1 == tin + 1 IN
    [env_step |-> es + 1,
     source   |-> "explore",
     env_calls |-> 1,
     mask     |-> IF t1 = maxep THEN FALSE ELSE done,
     appends  |-> 1,
     reset    |-> done,
     t        |-> IF done THEN 0 ELSE t1]

\* Variant: a time-limit end is not stored.
OffPolicyAlgorithm_step_skip(es, tin, ss, maxep, done) ==
    LET t1 == tin + 1
        e1 == es + 1 IN
    [env_step |-> e1, source |-> IF e1 <= ss THEN "sample" ELSE "explore",
     env_calls |-> 1, mask |-> IF t1 = maxep THEN FALSE ELSE done,
     appends |-> IF done /\ t1 = maxep THEN 0 ELSE 1,
     reset |-> done, t |-> IF done THEN 0 ELSE t1]

\* Variant: the warm-up ends one call early.
OffPolicyAlgorithm_step_early(es, tin, ss, maxep, done) ==
    LET t1 == tin + 1
        e1 == es + 1 IN
    [env_step |-> e1, source |-> IF e1 < ss THEN "sample" ELSE "explore",
     env_calls |-> 1, mask |-> IF t1 = maxep THEN FALSE ELSE done,
     appends |-> 1, reset |-> done, t |-> IF done THEN 0 ELSE t1]

OffPolicyAlgorithm_step(es, tin, ss, maxep, done) ==
    LET t1 == tin + 1
        e1 == es + 1 IN
    [env_step |-> e1,
     source   |-> IF e1 <= ss THEN "sample" ELSE "explore",
     env_calls |-> 1,
     mask     |-> IF t1 = maxep THEN FALSE ELSE done,
     appends  |-> 1,
     reset    |-> done,
     t        |-> IF done THEN 0 ELSE t1]

\* QLearning.explore: rnd is np.random.rand() < self.eps.
QLearning_explore(rnd) ==
    IF rnd THEN "self.action_space.sample" ELSE "_select_action"

\* OnPolicyActorCritic.explore
OnPolicyActorCritic_explore == "_explore"

\* Where the action of a call of step came from.
Action(r, rnd) ==
    IF r.source = "sample" THEN "env.action_space.sample"
    ELSE IF cls = "OnPolicyActorCritic" THEN OnPolicyActorCritic_explore
    ELSE QLearning_explore(rnd)

\* rljax.algorithm.base_class, the base of FQF: its step counter is self.agent_step,
\* and its is_update and step are taken to be those of base.py's OffPolicyAlgorithm
\* on that counter.
agent_step == env_step

base_class_is_update(astep, ui, ss) == OffPolicyAlgorithm_is_update(astep, ui, ss)

base_class_step(astep, tin, ss, maxep, done) ==
    OffPolicyAlgorithm_step(astep, tin, ss, maxep, done)

is_update ==
    CASE cls = "OnPolicyActorCritic" ->
            OnPolicyActorCritic_is_update(env_step, buffer_size)
      [] cls = "QLearning" ->
            OffPolicyAlgorithm_is_update(env_step, update_interval, start_steps)
      [] cls = "FQF" ->
            base_class_is_update(agent_step, update_interval, start_steps)

\* The effect of a call of step on the object and its collaborators.
Apply(r, done, rnd) ==
    /\ env_step' = r.env_step
    /\ t' = r.t
    /\ actions' = [actions EXCEPT ![r.source] = @ + 1]
    /\ env' = [steps |-> env.steps + r.env_calls, done |-> done, reset |-> r.reset]
    /\ buffer' = IF r.appends = 1 THEN append(buffer, r.mask) ELSE buffer
    /\ hist' = [hist EXCEPT !.steps = @ + 1,
                            !.last = "step",
                            !.action = Action(r, rnd),
                            !.t_in = t,
                            !.since_done = IF done THEN 0 ELSE @ + 1,
                            !.rollout = IF is_update THEN 1 ELSE @ + 1]
    /\ UNCHANGED <<cfgvars, learning_step, netvars>>

step(done, rnd) ==
    CASE cls = "OnPolicyActorCritic" ->
            Apply(OnPolicyActorCritic_step(env_step, t, max_episode_steps, done),
                  done, rnd)
      [] cls = "QLearning" ->
            Apply(OffPolicyAlgorithm_step(env_step, t, start_steps,
                                          max_episode_steps, done), done, rnd)
      [] cls = "FQF" ->
            Apply(base_class_step(agent_step, t, start_steps,
                                  max_episode_steps, done), done, rnd)

\* ------------------------------------------------------- Algorithm.update
\* The abstract update of base.py: the call is recorded, the body is empty.
Algorithm_update ==
    /\ hist' = [hist EXCEPT !.last = "update", !.updates = @ + 1, !.guard = is_update]
    /\ UNCHANGED <<cfgvars, env_step, learning_step, t, buffer, env, actions, netvars>>

\* ------------------------------------------------------- FQF.update
\* The arguments the two optimize calls receive: the fraction proposal network is
\* optimized against params (p), then the quantile network against params_target
\* (pt) and the params_cum_p in self at that moment (new).
\* Variant: the quantile network is optimized against the params_cum_p of before the call.
FQF_thread_stale(p, pt, old, new) == [cum_p_params |-> p, q_target |-> pt, q_cum_p |-> old]
FQF_thread(p, pt, old, new) == [cum_p_params |-> p, q_target |-> pt, q_cum_p |-> new]

\* Variant: use_per is not looked at.
FQF_priority_always(buf, per, abs_td) == update_priority(buf, abs_td)
\* "Update priority."
FQF_priority(buf, per, abs_td) == IF per THEN update_priority(buf, abs_td) ELSE buf

\* Variant: the interval is counted from one step earlier.
FQF_target_due_shifted(astep, uit) == (astep + 1) % uit = 0
\* "Update target network.": the condition of the synchronization ...
FQF_target_due(astep, uit) == astep % uit = 0

\* ... and the synchronization; p is self.params after the quantile network update.
FQF_target(target, p, astep, uit) ==
    IF FQF_target_due(astep, uit) THEN soft_update(target, p, TauHard) ELSE target

\* One call of update(): nc and np are the parameters the two optimize calls return.
update(nc, np) ==
    LET buf1  == sample(buffer)
        batch == buf1.cached
        synced == FQF_target(params_target, np, agent_step, update_interval_target)
        due   == agent_step % update_interval_target = 0
        taken == FQF_target_due(agent_step, update_interval_target)
    IN  /\ learning_step' = learning_step + 1
        /\ used' = FQF_thread(params, params_target, params_cum_p, nc)
        /\ params_cum_p' = nc
        /\ opt_state_cum_p' = opt_state_cum_p + 1
        /\ params' = np
        /\ opt_state' = opt_state + 1
        /\ buffer' = FQF_priority(buf1, use_per, batch)
        /\ params_target' = synced
        /\ hist' = [hist EXCEPT !.last = "update",
                                !.updates = @ + 1,
                                !.guard = is_update,
                                !.snap = IF due THEN np ELSE @,
                                !.sync_step = IF taken THEN agent_step ELSE @]
        /\ UNCHANGED <<cfgvars, env_step, t, env, actions>>

\* ------------------------------------------------------- FQF.load_params
\* super().load_params(save_dir) of rljax.algorithm.base_class: the stored
\* parameters become both the online and the target parameters.
base_class_load_params(lp) == [params |-> lp, params_target |-> lp]

\* One call of load_params(save_dir): lp and lc are the parameters stored in
\* params.npz and params_cum_p.npz.
load_params(lp, lc) ==
    LET base == base_class_load_params(lp)
    IN  /\ params' = base.params
        /\ params_target' = base.params_target
        /\ params_cum_p' = lc
        /\ hist' = [hist EXCEPT !.last = "load", !.loaded = TRUE]
        /\ UNCHANGED <<cfgvars, env_step, learning_step, t, buffer, env, actions,
                       opt_state, opt_state_cum_p, used>>

\* ------------------------------------------------------- construction
\* Algorithm.__init__
InitCommon ==
    /\ env_step = 0
    /\ learning_step = 0
    /\ t = 0
    /\ env = [steps |-> 0, done |-> FALSE, reset |-> FALSE]
    /\ actions = [sample |-> 0, explore |-> 0]
    /\ used = [cum_p_params |-> 0, q_target |-> 0, q_cum_p |-> 0]

\* No call has been made on the object yet.
NoCalls ==
    /\ hist = [steps |-> 0, updates |-> 0, last |-> "init", action |-> "none",
               t_in |-> 0, since_done |-> 0, rollout |-> 0, guard |-> FALSE,
               snap |-> params, sync_step |-> -1, loaded |-> FALSE]

\* The classes of base.py hold no network of their own.
NoNets ==
    /\ params = 0 /\ params_target = 0 /\ params_cum_p = 0
    /\ opt_state = 0 /\ opt_state_cum_p = 0

\* OnPolicyActorCritic.__init__
InitOnPolicy ==
    /\ cls = "OnPolicyActorCritic"
    /\ num_steps = MaxSteps
    /\ buffer_size \in 1 .. MaxBufferSize
    /\ start_steps = 0
    /\ update_interval = 1
    /\ update_interval_target = 1
    /\ use_per = FALSE
    /\ max_episode_steps \in 1 .. MaxEpisode
    /\ buffer = new_buffer("RolloutBuffer", <<0, 1>>)
    /\ NoNets
    /\ InitCommon
    /\ NoCalls

\* The arguments of an off-policy constructor.
OffPolicyArgs ==
    /\ buffer_size = MaxBufferSize
    /\ start_steps \in 0 .. MaxStartSteps
    /\ update_interval \in 1 .. MaxInterval
    /\ update_interval_target \in 1 .. MaxTargetInterval
    /\ use_per \in BOOLEAN

\* QLearning.__init__ of base.py (OffPolicyAlgorithm.__init__)
InitQLearning ==
    /\ cls = "QLearning"
    /\ OffPolicyArgs
    /\ buffer = new_buffer(OffPolicyAlgorithm_buffer(use_per),
                           IF use_per
                             THEN beta_steps(num_steps, start_steps, update_interval)
                             ELSE <<0, 1>>)
    /\ NoNets
    /\ InitCommon
    /\ NoCalls

\* QLearning.__init__ of rljax.algorithm.base_class, which FQF.__init__ calls:
\* taken to build the buffer as base.py does.
InitBaseClass ==
    /\ cls = "FQF"
    /\ OffPolicyArgs
    /\ buffer = new_buffer(OffPolicyAlgorithm_buffer(use_per),
                           IF use_per
                             THEN beta_steps(num_steps, start_steps, update_interval)
                             ELSE <<0, 1>>)
    /\ InitCommon

\* FQF.__init__ after the base constructor: the networks and their optimizers.
InitFQFNets ==
    /\ params \in ParamVals
    /\ params_target = params
    /\ opt_state = 0
    /\ params_cum_p \in ParamVals
    /\ opt_state_cum_p = 0

InitFQF == InitBaseClass /\ InitFQFNets /\ NoCalls

Init ==
    /\ pc = "any"
    /\ \/ InitOnPolicy
       \/ /\ num_steps = MaxSteps
          /\ max_episode_steps \in 1 .. MaxEpisode
          /\ InitQLearning
       \/ /\ num_steps = MaxSteps
          /\ max_episode_steps = MaxEpisode
          /\ start_steps \in {0, MaxStartSteps}
          /\ update_interval = MaxInterval
          /\ InitFQF

\* ------------------------------------------------------- calls in any order
OnPolicyStep ==
    /\ cls = "OnPolicyActorCritic"
    /\ env_step < MaxSteps
    /\ \E done \in BOOLEAN, rnd \in BOOLEAN : step(done, rnd)
    /\ pc' = pc

OffPolicyStep ==
    /\ cls = "QLearning"
    /\ pc = "any"
    /\ env_step < MaxSteps
    /\ \E done \in BOOLEAN, rnd \in BOOLEAN : step(done, rnd)
    /\ pc' = pc

FQFStep ==
    /\ cls = "FQF"
    /\ pc = "any"
    /\ agent_step < MaxAgentSteps
    /\ \E done \in BOOLEAN, rnd \in BOOLEAN : step(done, rnd)
    /\ pc' = pc

AbstractUpdate ==
    /\ cls # "FQF"
    /\ pc = "any"
    /\ hist.updates < MaxUpdates
    /\ Algorithm_update
    /\ pc' = pc

FQFUpdate ==
    /\ cls = "FQF"
    /\ pc = "any"
    /\ learning_step < MaxUpdates
    /\ \E nc \in ParamVals, np \in ParamVals : update(nc, np)
    /\ pc' = pc

FQFLoadParams ==
    /\ cls = "FQF"
    /\ pc = "any"
    /\ \E lp \in ParamVals, lc \in ParamVals : load_params(lp, lc)
    /\ pc' = pc

Next ==
    \/ OnPolicyStep
    \/ OffPolicyStep
    \/ FQFStep
    \/ AbstractUpdate
    \/ FQFUpdate
    \/ FQFLoadParams

Spec == Init /\ [][Next]_vars

\* ------------------------------------------------------- the training loop
\* for each of num_steps iterations: step, then update() iff is_update().
InitRun ==
    /\ pc = "step"
    /\ max_episode_steps = MaxEpisode
    /\ \/ /\ num_steps \in 1 .. MaxRunSteps
          /\ InitQLearning
       \/ /\ num_steps = MaxRunSteps
          /\ InitFQF
    /\ start_steps <= num_steps

RunStep ==
    /\ pc = "step"
    /\ env_step < num_steps
    /\ \E done \in BOOLEAN, rnd \in BOOLEAN : step(done, rnd)
    /\ pc' = "check"

RunUpdate ==
    /\ pc = "check"
    /\ cls = "QLearning"
    /\ is_update
    /\ Algorithm_update
    /\ pc' = "step"

RunUpdateFQF ==
    /\ pc = "check"
    /\ cls = "FQF"
    /\ is_update
    /\ \E nc \in ParamVals, np \in ParamVals : update(nc, np)
    /\ pc' = "step"

RunSkip ==
    /\ pc = "check"
    /\ ~is_update
    /\ pc' = "step"
    /\ UNCHANGED <<cfgvars, env_step, learning_step, t, buffer, env, actions, netvars, hist>>

NextRun == RunStep \/ RunUpdate \/ RunUpdateFQF \/ RunSkip

SpecRun == InitRun /\ [][NextRun]_vars

\* ======================================================= claims
IsOnPolicy == cls = "OnPolicyActorCritic"
IsFQF == cls = "FQF"
IsQLearning == cls = "QLearning"
IsOffPolicy == cls \in {"QLearning", "FQF"}
Multiple(n, d) == \E k \in 0 .. n : n = k * d
Min(a, b) == IF a <= b THEN a ELSE b

\* C1 (as stated): in every reachable state of an OnPolicyActorCritic, none of the
\* step calls made included, is_update() is true exactly when env_step is a positive
\* multiple of buffer_size.
C1_DrainedAtPositiveMultiples ==
    IsOnPolicy =>
        (OnPolicyActorCritic_is_update(env_step, buffer_size)
            <=> (env_step > 0 /\ Multiple(env_step, buffer_size)))

\* C1 (amended): is_update() is true exactly when env_step is a multiple of
\* buffer_size, zero included: it is true at construction, and after that exactly
\* when buffer_size transitions have been appended by step since the previous state
\* in which it was true.
C1_DrainedEveryBufferSize ==
    IsOnPolicy =>
        /\ OnPolicyActorCritic_is_update(env_step, buffer_size)
              <=> Multiple(hist.steps, buffer_size)
        /\ OnPolicyActorCritic_is_update(env_step, buffer_size)
              <=> (hist.steps = 0 \/ hist.rollout = buffer_size)

C1_Witness ==
    /\ IsOnPolicy
    /\ buffer_size = 2
    /\ env_step = 4
    /\ hist.rollout = 2
    /\ buffer.appended = 4
    /\ is_update

\* C2: params_target equals params at construction, and after any sequence of
\* update() calls it equals the value params had at the end of the most recent
\* update() call made while agent_step was a multiple of update_interval_target
\* (the initial params when there was none); other update() calls leave it alone.
C2_TargetIsDelayedCopy ==
    (IsFQF /\ ~hist.loaded) =>
        /\ params_target = hist.snap
        /\ learning_step = 0 => params_target = params

C2_Witness ==
    /\ IsFQF
    /\ ~hist.loaded
    /\ hist.last = "update"
    /\ learning_step = 2
    /\ hist.sync_step >= 0
    /\ ~Multiple(agent_step, update_interval_target)
    /\ params_target # params

\* C3: after any sequence of step and update calls, env_step equals the number of
\* step calls made, the number of env.step calls and the number of transitions
\* appended to the buffer, whatever done and t were.
C3_OneTransitionPerStep ==
    /\ env_step = hist.steps
    /\ env.steps = hist.steps
    /\ buffer.appended = hist.steps

C3_Witness ==
    /\ IsQLearning
    /\ hist.steps = 3
    /\ hist.updates = 2
    /\ env.done
    /\ hist.t_in + 1 = max_episode_steps
    /\ buffer.appended = 3

\* C4: the buffer is a PrioritizedReplayBuffer iff use_per; every update() call
\* invokes update_priority once when use_per and never otherwise; the priorities
\* are written after the call's own sample, with no sample in between, for the
\* batch just sampled.
C4_PriorityOnlyForPer ==
    /\ IsOffPolicy => (buffer.kind = "PrioritizedReplayBuffer" <=> use_per)
    /\ IsFQF =>
        /\ buffer.prioritized = IF use_per THEN learning_step ELSE 0
        /\ buffer.sampled = learning_step
        /\ (use_per /\ learning_step > 0) =>
              /\ buffer.prio_at = buffer.sampled
              /\ buffer.prio_from = buffer.sampled

C4_Witness ==
    /\ IsFQF
    /\ use_per
    /\ learning_step = 2
    /\ buffer.prioritized = 2
    /\ buffer.prio_from = 2

\* C5 (as stated): is_update() is true iff env_step is a multiple of
\* update_interval and env_step >= start_steps; so an update() called in a state
\* where is_update() is true finds a buffer that has received at least start_steps
\* transitions and is not empty.
C5_UpdateFindsNonEmptyBuffer ==
    IsOffPolicy =>
        /\ is_update <=> (Multiple(hist.steps, update_interval) /\ hist.steps >= start_steps)
        /\ (hist.last = "update" /\ hist.guard) =>
              /\ buffer.appended >= start_steps
              /\ buffer.appended > 0

\* C5 (amended): is_update() is true iff env_step is a multiple of update_interval
\* and env_step >= start_steps; an update() called in a state where is_update() is
\* true finds a buffer that has received at least start_steps transitions, and a
\* non-empty one if start_steps >= 1 or a step has been made (with start_steps = 0
\* is_update() is already true at construction, on an empty buffer).
C5_UpdateAfterWarmUp ==
    IsOffPolicy =>
        /\ is_update <=> (Multiple(hist.steps, update_interval) /\ hist.steps >= start_steps)
        /\ (hist.last = "update" /\ hist.guard) =>
              /\ buffer.appended >= start_steps
              /\ (start_steps >= 1 \/ hist.steps >= 1) => buffer.appended > 0

C5_Witness ==
    /\ IsQLearning
    /\ hist.last = "update"
    /\ hist.guard
    /\ start_steps = 2
    /\ update_interval = 2
    /\ buffer.appended = 2
    /\ hist.updates = 1

\* C6: the k-th call of OffPolicyAlgorithm.step takes its action from
\* env.action_space.sample() if k <= start_steps and from explore(state) otherwise:
\* after k calls the sampler was used Min(k, start_steps) times and explore the
\* remaining times, and the last call took env.action_space.sample() iff it was one
\* of the first start_steps calls.
C6_WarmUpActions ==
    IsOffPolicy =>
        /\ actions.sample = Min(hist.steps, start_steps)
        /\ actions.explore = hist.steps - Min(hist.steps, start_steps)
        /\ hist.steps >= 1 =>
              (hist.action = "env.action_space.sample" <=> hist.steps <= start_steps)

C6_Witness ==
    /\ IsQLearning
    /\ start_steps = 2
    /\ hist.steps = 4
    /\ actions.sample = 2
    /\ actions.explore = 2
    /\ hist.action = "self.action_space.sample"

\* C7: the mask stored by step is true iff env.step returned done and the
\* incremented t differs from env._max_episode_steps; the environment is reset and
\* the returned t is 0 iff done, otherwise the returned t is the incoming t plus 1;
\* the returned t is the number of step calls since the last done.
C7_EpisodeBookkeeping ==
    hist.steps >= 1 =>
        /\ buffer.mask <=> (env.done /\ hist.t_in + 1 # max_episode_steps)
        /\ env.reset <=> env.done
        /\ t = 0 <=> env.done
        /\ ~env.done => t = hist.t_in + 1
        /\ t = hist.since_done

C7_Witness ==
    /\ IsOnPolicy
    /\ hist.steps >= 3
    /\ env.done
    /\ hist.t_in + 1 = max_episode_steps
    /\ ~buffer.mask
    /\ env.reset
    /\ t = 0

\* C8: one update() call increments learning_step by 1, samples one batch, updates
\* (params_cum_p, opt_state_cum_p) against the params of before the call, then
\* (params, opt_state) against the updated params_cum_p and the params_target of
\* before the call, and only then may synchronize params_target; it changes neither
\* env_step nor the number of transitions appended.
C8_UpdateThreading ==
    [][learning_step' # learning_step =>
          /\ learning_step' = learning_step + 1
          /\ buffer'.sampled = buffer.sampled + 1
          /\ used'.cum_p_params = params
          /\ opt_state_cum_p' = opt_state_cum_p + 1
          /\ used'.q_cum_p = params_cum_p'
          /\ used'.q_target = params_target
          /\ opt_state' = opt_state + 1
          /\ params_target' \in {params_target, params'}
          /\ env_step' = env_step
          /\ buffer'.appended = buffer.appended]_vars

C8_Witness ==
    /\ IsFQF
    /\ hist.last = "update"
    /\ learning_step = 2
    /\ used.cum_p_params # params
    /\ used.q_target # params_target
    /\ params_target = params
    /\ buffer.appended >= 1

\* C9 (as stated): in the training loop, for every multiple m >= start_steps of
\* update_interval_target the run reaches, params_target is synchronized at
\* environment step m.
C9_SyncEveryTargetInterval ==
    (/\ pc = "step"
     /\ env_step >= 1
     /\ env_step >= start_steps
     /\ Multiple(env_step, update_interval_target)
     /\ IsFQF)
        => hist.sync_step = env_step

\* C9 (amended): in the training loop, for every m >= start_steps the run reaches
\* that is a multiple of both update_interval_target and update_interval,
\* params_target is synchronized at environment step m.
C9_SyncAtCommonMultiples ==
    (/\ pc = "step"
     /\ env_step >= 1
     /\ env_step >= start_steps
     /\ Multiple(env_step, update_interval_target)
     /\ Multiple(env_step, update_interval)
     /\ IsFQF)
        => hist.sync_step = env_step

C9_Witness ==
    /\ IsFQF
    /\ pc = "step"
    /\ update_interval = 2
    /\ update_interval_target = 2
    /\ start_steps = 1
    /\ env_step = 4
    /\ hist.sync_step = 4
    /\ learning_step = 2

\* C10 (as stated): in a training loop of num_steps steps the number of update()
\* calls does not exceed beta_steps = (num_steps - start_steps) / update_interval.
C10_UpdatesWithinBetaSteps ==
    (IsQLearning /\ use_per) => LeqFrac(hist.updates, buffer.beta_steps)

\* C10 (amended): in a training loop of num_steps steps the number of update()
\* calls does not exceed beta_steps + 1.
C10_UpdatesWithinBetaStepsPlusOne ==
    (IsQLearning /\ use_per) => LeqFrac(hist.updates - 1, buffer.beta_steps)

C10_Witness ==
    /\ IsQLearning
    /\ use_per
    /\ pc = "step"
    /\ env_step = num_steps
    /\ start_steps = 2
    /\ hist.updates >= 2
    /\ ~LeqFrac(hist.updates, buffer.beta_steps)

====
